---- MODULE Spec2Model ----
(***************************************************************************)
(* Model of src/app.py: a Slack bot that, on an app_mention event, picks a *)
(* PDF (attachment or URL in the text), downloads it to a fixed scratch    *)
(* path, compresses it with Ghostscript, uploads the result to Google      *)
(* Drive under a folder named after the channel or user, and replies with  *)
(* a link.  Several handle_mentions instances may run at the same time.    *)
(*                                                                         *)
(* Strings are sequences of atoms (short string fragments); "in",          *)
(* str.replace, re.search, urlparse and str.split are computed on them.    *)
(* The atoms are chosen so that every needle the code searches for is a    *)
(* whole number of atoms.                                                  *)
(***************************************************************************)
EXTENDS Integers, Sequences, FiniteSets, TLC

\* ------------------------------------------------------------------ bounds
\* mention events handled (possibly at the same time)
NumReq == 2
\* attachments an event carries at most
MaxFiles == 2

Req == 1..NumReq

\* ------------------------------------------------------- string primitives
Min(S) == CHOOSE x \in S : \A y \in S : x <= y
Max(S) == CHOOSE x \in S : \A y \in S : x >= y

\* sub occurs in s starting at index i
OccursAt(s, sub, i) ==
    /\ i >= 1
    /\ i + Len(sub) - 1 <= Len(s)
    /\ \A k \in 1..Len(sub) : s[i + k - 1] = sub[k]

\* python: sub in s
Contains(s, sub) == \E i \in 1..Len(s) : OccursAt(s, sub, i)

\* python: s.replace(old, new), every non-overlapping occurrence, left to right
RECURSIVE Replace(_, _, _)
Replace(s, old, new) ==
    IF s = <<>> THEN <<>>
    ELSE IF OccursAt(s, old, 1)
         THEN new \o Replace(SubSeq(s, Len(old) + 1, Len(s)), old, new)
         ELSE <<Head(s)>> \o Replace(Tail(s), old, new)

\* python: str.lower() on one atom (the alphabet has one atom with capitals)
Lower(a) == IF a = ".PDF" THEN ".pdf" ELSE a

Whitespace == {" "}

\* index of the first atom of s that is in set D, Len(s)+1 when there is none
FirstIn(s, D) ==
    IF \E i \in 1..Len(s) : s[i] \in D
    THEN Min({i \in 1..Len(s) : s[i] \in D})
    ELSE Len(s) + 1

\* urlparse(url).path: what follows the netloc, up to the first "?" or "#"
UrlRest(url) ==
    IF Len(url) >= 2 /\ url[2] = "://" THEN SubSeq(url, 3, Len(url)) ELSE url
UrlNetloc(url) ==
    IF Len(url) >= 2 /\ url[2] = "://"
    THEN SubSeq(UrlRest(url), 1, FirstIn(UrlRest(url), {"/", "?", "#"}) - 1)
    ELSE <<>>
UrlPath(url) ==
    LET rest == UrlRest(url)
        tail == SubSeq(rest, Len(UrlNetloc(url)) + 1, Len(rest))
    IN  SubSeq(tail, 1, FirstIn(tail, {"?", "#"}) - 1)

\* ------------------------------------------------------ src/app.py helpers
\* is_pdf_url: parsed.path.lower().endswith(".pdf")
is_pdf_url_sensitive(url) ==
    LET p == UrlPath(url) IN Len(p) > 0 /\ p[Len(p)] = ".pdf"
is_pdf_url(url) ==
    LET p == UrlPath(url) IN Len(p) > 0 /\ Lower(p[Len(p)]) = ".pdf"

\* extract_url: re.search(r'(https?://[^\s]+)', text); None is <<>>
NoUrl == <<>>
UrlStarts(text) ==
    {i \in 1..Len(text) :
        /\ text[i] \in {"http", "https"}
        /\ i + 2 <= Len(text)
        /\ text[i + 1] = "://"
        /\ text[i + 2] \notin Whitespace}
MatchFrom(text, i) ==
    SubSeq(text, i, Max({j \in (i + 2)..Len(text) :
                            \A k \in (i + 2)..j : text[k] \notin Whitespace}))
extract_url_last(text) ==
    IF UrlStarts(text) = {} THEN NoUrl ELSE MatchFrom(text, Max(UrlStarts(text)))
extract_url(text) ==
    IF UrlStarts(text) = {} THEN NoUrl ELSE MatchFrom(text, Min(UrlStarts(text)))

\* url.split("/")[-1]: the atoms after the last one that holds a "/"
LastSegment(url) ==
    LET slashes == {i \in 1..Len(url) : url[i] \in {"/", "://"}}
    IN  IF slashes = {} THEN url ELSE SubSeq(url, Max(slashes) + 1, Len(url))

\* original_filename.replace(".pdf", "") + "_cmp.pdf"
OptimizedName(original_filename) ==
    Replace(original_filename, <<".pdf">>, <<>>) \o <<"_cmp.pdf">>

\* download_file, line 44-45: the Dropbox rewrite
DropboxRewrite(url) ==
    IF Contains(url, <<"dropbox", ".com">>)
    THEN Replace(Replace(url, <<"?", "d1", "=", "0">>, <<"?", "d1", "=", "1">>),
                 <<"www.", "dropbox", ".com">>,
                 <<"dl.", "dropbox", "usercontent", ".com">>)
    ELSE url

\* download_file, line 46-48: the bearer header is attached when the text
\* "slack.com" occurs anywhere in the (rewritten) url
SendsToken(url) == Contains(url, <<"slack", ".com">>)

\* upload_to_drive, line 100
DriveLinkStale(file_id) ==
    [host |-> "drive.google.com", prefix |-> "/file/d/", id |-> file_id - 1, suffix |-> "/view"]
DriveLink(file_id) ==
    [host |-> "drive.google.com", prefix |-> "/file/d/", id |-> file_id, suffix |-> "/view"]
NoLink == [host |-> "", prefix |-> "", id |-> 0, suffix |-> ""]

\* ------------------------------------------------------------ environment
\* Slack: client.users_info(user)["user"]["name"] and
\* client.conversations_info(channel)["channel"]["name"]
UserName(user) == <<"alice">>
ChannelName(channel) == <<"general">>

\* mention events (spec section 6 and the fields handle_mentions reads)
SlackPdf == [filetype |-> "pdf",
             url_private_download |->
                 <<"https", "://", "files.", "slack", ".com", "/", "a", ".pdf">>,
             name |-> <<"a", ".pdf">>]
SlackPng == [filetype |-> "png",
             url_private_download |->
                 <<"https", "://", "files.", "slack", ".com", "/", "b", ".png">>,
             name |-> <<"b", ".png">>]
FileDescs == {SlackPdf, SlackPng}
FileLists == UNION {[1..n -> FileDescs] : n \in 0..MaxFiles}

TextNoUrl == <<"hi", " ", "there">>
TextPathSlack ==
    <<"see", " ", "https", "://", "evil", ".org", "/", "slack", ".com", "/", "c", ".pdf">>
TextSecondPdf ==
    <<"http", "://", "evil", ".org", "/", "page", " ",
      "https", "://", "evil", ".org", "/", "d", ".pdf">>
TextDropbox ==
    <<"https", "://", "www.", "dropbox", ".com", "/", "s", "/", "e", ".PDF", "?", "dl", "=", "0">>
Texts == {TextNoUrl, TextPathSlack, TextSecondPdf, TextDropbox}

Channels == {<<"D", "1">>, <<"C", "1">>}

\* every combination, except that an event with attachments carries one of two
\* texts (one without and one with a PDF link)
Events == {e \in [channel : Channels, user : {"U1"}, ts : {"ts1"},
                  files : FileLists, text : Texts] :
              e.files # <<>> => e.text \in {TextNoUrl, TextPathSlack}}

\* The first request is any event.  The requests that run beside it are
\* drawn from two events that reach the pipeline, one per folder name.
BesideEvents ==
    {[channel |-> <<"C", "1">>, user |-> "U1", ts |-> "ts1",
      files |-> <<SlackPdf>>, text |-> TextNoUrl],
     [channel |-> <<"D", "1">>, user |-> "U1", ts |-> "ts1",
      files |-> <<>>, text |-> TextDropbox]}
EventsOf(r) == IF r = 1 THEN Events ELSE BesideEvents

\* ------------------------------------------------------------------ state
VARIABLES
    pc,             \* per request: where handle_mentions is
    event,          \* per request: the event it was called with
    folder_name,    \* per request: local folder_name
    file_url,       \* per request: local file_url
    optimized_name, \* per request: local optimized_name
    folder_id,      \* per request: upload_to_drive's folder_id
    file_id,        \* per request: upload_to_drive's file['id']
    trace,          \* per request: the external calls it made, in order
    origFile,       \* /tmp/original.pdf: 0 absent, r the bytes r downloaded
    cmpFile,        \* /tmp/original_cmp.pdf: 0 absent, r compression of r's bytes
    tokenFile,      \* token.json exists (absent on a fresh deployment)
    driveFolders,   \* Drive: folders created, [id, name]
    driveFiles,     \* Drive: files created, [id, name, parent, src, public]
    nextId,         \* Drive: next object identifier
    overlapped      \* history: some handler was called while another was running

locals == <<event, folder_name, file_url, optimized_name, folder_id, file_id>>
disk == <<origFile, cmpFile, tokenFile>>
drive == <<driveFolders, driveFiles, nextId>>
vars == <<pc, trace, locals, disk, drive, overlapped>>

\* How a call of handle_mentions ends.  Done: it said the link (line 206).
\* Failed: it returned without a link, after a rejection (lines 128, 149, 177)
\* or after an except clause ran to its end.  Raised: an exception left it.
\* Before that pc names the state of the pipeline the call is about to
\* enter: Resolving, Acquiring, Compressing, Publishing (then PubAuth,
\* PubList, PubFolder, PubUpload inside upload_to_drive).
Terminal == {"Done", "Failed", "Raised"}
NoEvent == [channel |-> <<>>, user |-> "", ts |-> "", files |-> <<>>, text |-> <<>>]

\* one external call, as recorded in trace
Ent(op) == [op |-> op, ok |-> TRUE, kind |-> "", thread |-> "", url |-> <<>>,
            auth |-> FALSE, link |-> NoLink, src |-> 0, id |-> 0, name |-> <<>>]

\* say(...): kind names the template, thread is thread_ts ("" when not passed)
Say(kind, thread, link, ok) ==
    [Ent("say") EXCEPT !.kind = kind, !.thread = thread, !.link = link, !.ok = ok]

\* ------------------------------------------------- handle_mentions, pieces
\* line 126: len(files) > 1
TooManyOff(files) == Len(files) > 2
TooMany(files) == Len(files) > 1

\* line 130: file_info.get("filetype") != "pdf"
NotPdfNever(file_info) == FALSE
NotPdf(file_info) == file_info.filetype # "pdf"

\* (a resolver that looks for a link in the text before it looks at the
\* attachments)
ResolutionTextFirst(ev) ==
    LET url == extract_url(ev.text)
    IN  IF url # NoUrl /\ is_pdf_url(url)
        THEN [verdict |-> "ok", url |-> url, filename |-> LastSegment(url)]
        ELSE IF ev.files = <<>>
        THEN [verdict |-> "bad_link", url |-> <<>>, filename |-> <<>>]
        ELSE IF TooMany(ev.files)
        THEN [verdict |-> "too_many", url |-> <<>>, filename |-> <<>>]
        ELSE IF NotPdf(ev.files[1])
        THEN [verdict |-> "unsupported", url |-> <<>>, filename |-> <<>>]
        ELSE [verdict |-> "ok",
              url |-> ev.files[1].url_private_download,
              filename |-> ev.files[1].name]

\* lines 124-180: what the handler decides from the event alone.
\* verdict "ok" carries file_url and original_filename; any other verdict is
\* the template of the rejection message.
Resolution(ev) ==
    IF ev.files # <<>>
    THEN IF TooMany(ev.files)
         THEN [verdict |-> "too_many", url |-> <<>>, filename |-> <<>>]
         ELSE IF NotPdf(ev.files[1])
              THEN [verdict |-> "unsupported", url |-> <<>>, filename |-> <<>>]
              ELSE [verdict |-> "ok",
                    url |-> ev.files[1].url_private_download,
                    filename |-> ev.files[1].name]
    ELSE LET url == extract_url(ev.text)
         IN  IF url = NoUrl \/ ~is_pdf_url(url)
             THEN [verdict |-> "bad_link", url |-> <<>>, filename |-> <<>>]
             ELSE [verdict |-> "ok", url |-> url, filename |-> LastSegment(url)]

\* thread_ts of each say: line 127 passes none, lines 131 and 159 pass event["ts"]
RejectThread(verdict, ts) == IF verdict = "too_many" THEN "" ELSE ts

\* lines 208-249: the two except clauses.  Each says the exception text
\* (no thread_ts) and then the templated apology; a say that raises inside an
\* except clause is caught by nothing.
ExceptSays(exc, ts, ok1, ok2) ==
    <<Say(IF exc = "SlackApiError" THEN "slack_error" ELSE "unexpected", "", NoLink, ok1)>>
    \o (IF ok1 THEN <<Say("problem", ts, NoLink, ok2)>> ELSE <<>>)
ExceptPc(ok1, ok2) == IF ok1 /\ ok2 THEN "Failed" ELSE "Raised"

\* the try body raised exc after making the calls in pre; each of the two
\* replies of the except clause is delivered or raises
Raise(r, pre, exc) ==
    \E ok1 \in BOOLEAN : \E ok2 \in (IF ok1 THEN BOOLEAN ELSE {FALSE}) :
        /\ trace' = [trace EXCEPT ![r] = @ \o pre \o ExceptSays(exc, event[r].ts, ok1, ok2)]
        /\ pc' = [pc EXCEPT ![r] = ExceptPc(ok1, ok2)]

\* the try body made the calls in pre and goes on at next
Step(r, pre, next) ==
    /\ trace' = [trace EXCEPT ![r] = @ \o pre]
    /\ pc' = [pc EXCEPT ![r] = next]

\* ---------------------------------------------------------------- actions
\* a fresh deployment: no scratch file, no token.json, nothing on Drive
Init ==
    /\ pc = [r \in Req |-> "Idle"]
    /\ event = [r \in Req |-> NoEvent]
    /\ folder_name = [r \in Req |-> <<>>]
    /\ file_url = [r \in Req |-> <<>>]
    /\ optimized_name = [r \in Req |-> <<>>]
    /\ folder_id = [r \in Req |-> 0]
    /\ file_id = [r \in Req |-> 0]
    /\ trace = [r \in Req |-> <<>>]
    /\ origFile = 0
    /\ cmpFile = 0
    /\ tokenFile = FALSE
    /\ driveFolders = {}
    /\ driveFiles = {}
    /\ nextId = 1
    /\ overlapped = FALSE

\* the Slack transport calls handle_mentions(event, say, client)
Deliver(r) ==
    /\ pc[r] = "Idle"
    /\ \A q \in Req : q < r => pc[q] # "Idle"
    /\ \E ev \in EventsOf(r) : event' = [event EXCEPT ![r] = ev]
    /\ pc' = [pc EXCEPT ![r] = "Resolving"]
    /\ overlapped' = (overlapped \/ \E q \in Req : pc[q] \notin Terminal \cup {"Idle"})
    /\ UNCHANGED <<trace, folder_name, file_url, optimized_name, folder_id, file_id,
                   disk, drive>>

\* lines 112-182: folder-name lookup, then the choice of the source
Resolve(r) ==
    /\ pc[r] = "Resolving"
    /\ \E lookupOk, sayOk \in BOOLEAN :
        LET ev == event[r]
            dm == ev.channel[1] = "D"
            name == IF dm THEN UserName(ev.user) ELSE ChannelName(ev.channel)
            lk == [Ent(IF dm THEN "users_info" ELSE "conversations_info")
                     EXCEPT !.ok = lookupOk, !.name = name]
            res == Resolution(ev)
            rej == Say(res.verdict, RejectThread(res.verdict, ev.ts), NoLink, sayOk)
        IN  IF ~lookupOk
            THEN /\ Raise(r, <<lk>>, "SlackApiError")
                 /\ UNCHANGED <<folder_name, file_url, optimized_name>>
            ELSE IF res.verdict # "ok"
            THEN /\ IF sayOk
                    THEN Step(r, <<lk, rej>>, "Failed")
                    ELSE Raise(r, <<lk, rej>>, "SlackApiError")
                 /\ folder_name' = [folder_name EXCEPT ![r] = name]
                 /\ UNCHANGED <<file_url, optimized_name>>
            ELSE /\ Step(r, <<lk>>, "Acquiring")
                 /\ folder_name' = [folder_name EXCEPT ![r] = name]
                 /\ file_url' = [file_url EXCEPT ![r] = res.url]
                 /\ optimized_name' = [optimized_name EXCEPT ![r] = OptimizedName(res.filename)]
    /\ UNCHANGED <<event, folder_id, file_id, disk, drive, overlapped>>

\* lines 49-50: requests.get raised, or response.raise_for_status() raises on
\* a non-success status; ok says the response came back with a success status
RaiseForStatusNever(ok) == FALSE
RaiseForStatus(ok) == ~ok

\* line 184 and lines 43-52: download_file(file_url, "/tmp/original.pdf"); the
\* file is opened and written after the status check
Acquire(r) ==
    /\ pc[r] = "Acquiring"
    /\ \E getOk \in BOOLEAN :
        LET url == DropboxRewrite(file_url[r])
            get == [Ent("get") EXCEPT !.url = url, !.auth = SendsToken(url), !.ok = getOk]
        IN  IF ~RaiseForStatus(getOk)
            THEN /\ Step(r, <<get>>, "Compressing")
                 /\ origFile' = r
            ELSE /\ Raise(r, <<get>>, "Exception")
                 /\ UNCHANGED origFile
    /\ UNCHANGED <<locals, cmpFile, tokenFile, drive, overlapped>>

\* line 65: subprocess.run(..., check=True) raises on a non-zero exit status
CheckFalse(gsOk) == FALSE
CheckTrue(gsOk) == ~gsOk

\* lines 185-203: say("working on that..."), then optimize_pdf (lines 55-65).
\* A Ghostscript run that fails is taken to leave the output file as it was.
Compress(r) ==
    /\ pc[r] = "Compressing"
    /\ \E sayOk, gsOk \in BOOLEAN :
        LET working == Say("working", event[r].ts, NoLink, sayOk)
            gs == [Ent("gs") EXCEPT !.src = origFile, !.ok = gsOk]
        IN  IF ~sayOk
            THEN /\ Raise(r, <<working>>, "SlackApiError")
                 /\ UNCHANGED cmpFile
            ELSE IF CheckTrue(gsOk)
            THEN /\ Raise(r, <<working, gs>>, "Exception")
                 /\ UNCHANGED cmpFile
            ELSE /\ Step(r, <<working, gs>>, "Publishing")
                 /\ cmpFile' = origFile
    /\ UNCHANGED <<locals, origFile, tokenFile, drive, overlapped>>

\* line 72: os.path.exists(TOKEN_PATH)
TokenExists(tok) == tok

\* line 84 and lines 70-73: get_drive_service, the token.json test
GetService(r) ==
    /\ pc[r] = "Publishing"
    /\ \E ok \in BOOLEAN :
        IF TokenExists(tokenFile)
        THEN LET load == [Ent("token_load") EXCEPT !.ok = ok]
             IN  IF ok THEN Step(r, <<load, Ent("build")>>, "PubList")
                 ELSE Raise(r, <<load>>, "Exception")
        ELSE Step(r, <<>>, "PubAuth")
    /\ UNCHANGED <<locals, disk, drive, overlapped>>

\* lines 75-79: the interactive authorization, then token.json is written
Authorize(r) ==
    /\ pc[r] = "PubAuth"
    /\ \E ok \in BOOLEAN :
        LET flow == [Ent("auth_flow") EXCEPT !.ok = ok]
        IN  IF ok
            THEN /\ Step(r, <<flow, Ent("build")>>, "PubList")
                 /\ tokenFile' = TRUE
            ELSE /\ Raise(r, <<flow>>, "Exception")
                 /\ UNCHANGED tokenFile
    /\ UNCHANGED <<locals, origFile, cmpFile, drive, overlapped>>

\* lines 86-88: the folders the files().list query returns
FolderItemsNone(folders, name) == {}
FolderItems(folders, name) == {f \in folders : f.name = name}

\* lines 85-90: look the folder up; items[0] is whichever the service lists first
ListFolder(r) ==
    /\ pc[r] = "PubList"
    /\ \E ok \in BOOLEAN :
        LET items == FolderItems(driveFolders, folder_name[r])
            list == [Ent("files_list") EXCEPT !.ok = ok, !.name = folder_name[r]]
        IN  IF ~ok
            THEN /\ Raise(r, <<list>>, "Exception")
                 /\ UNCHANGED folder_id
            ELSE IF items # {}
            THEN /\ Step(r, <<list>>, "PubUpload")
                 /\ \E f \in items : folder_id' = [folder_id EXCEPT ![r] = f.id]
            ELSE /\ Step(r, <<list>>, "PubFolder")
                 /\ UNCHANGED folder_id
    /\ UNCHANGED <<event, folder_name, file_url, optimized_name, file_id, disk, drive, overlapped>>

\* lines 91-94: no folder was listed, create one
CreateFolder(r) ==
    /\ pc[r] = "PubFolder"
    /\ \E ok \in BOOLEAN :
        LET mk == [Ent("folder_create") EXCEPT !.ok = ok, !.name = folder_name[r],
                                               !.id = IF ok THEN nextId ELSE 0]
        IN  IF ok
            THEN /\ Step(r, <<mk>>, "PubUpload")
                 /\ driveFolders' = driveFolders \cup {[id |-> nextId, name |-> folder_name[r]]}
                 /\ folder_id' = [folder_id EXCEPT ![r] = nextId]
                 /\ nextId' = nextId + 1
            ELSE /\ Raise(r, <<mk>>, "Exception")
                 /\ UNCHANGED <<driveFolders, folder_id, nextId>>
    /\ UNCHANGED <<event, folder_name, file_url, optimized_name, file_id, disk,
                   driveFiles, overlapped>>

\* line 99: permissions().create(...).execute() raises when the grant fails
GrantSwallowed(permOk) == FALSE
GrantRaises(permOk) == ~permOk

\* lines 96-100 and 204-206: upload /tmp/original_cmp.pdf as it is now, grant
\* anyone-reader on the new file, form the link and say it.  The grant and the
\* reply touch nothing another request reads, so they are part of this step.
Upload(r) ==
    /\ pc[r] = "PubUpload"
    /\ \E upOk, permOk, sayOk \in BOOLEAN :
        LET up == [Ent("file_create") EXCEPT !.ok = upOk, !.name = optimized_name[r],
                                             !.src = cmpFile,
                                             !.id = IF upOk THEN nextId ELSE 0]
            perm == [Ent("permission") EXCEPT !.ok = permOk, !.id = nextId]
            final == Say("final", event[r].ts, DriveLink(nextId), sayOk)
            made == [id |-> nextId, name |-> optimized_name[r], parent |-> folder_id[r],
                     src |-> cmpFile, public |-> permOk]
        IN  IF ~upOk
            THEN /\ Raise(r, <<up>>, "Exception")
                 /\ UNCHANGED <<driveFiles, file_id, nextId>>
            ELSE /\ driveFiles' = driveFiles \cup {made}
                 /\ file_id' = [file_id EXCEPT ![r] = nextId]
                 /\ nextId' = nextId + 1
                 /\ IF GrantRaises(permOk)
                    THEN Raise(r, <<up, perm>>, "Exception")
                    ELSE IF ~sayOk
                    THEN Raise(r, <<up, perm, final>>, "SlackApiError")
                    ELSE Step(r, <<up, perm, final>>, "Done")
    /\ UNCHANGED <<event, folder_name, file_url, optimized_name, folder_id, disk,
                   driveFolders, overlapped>>

Next ==
    \E r \in Req :
        \/ Deliver(r)
        \/ Resolve(r)
        \/ Acquire(r)
        \/ Compress(r)
        \/ GetService(r)
        \/ Authorize(r)
        \/ ListFolder(r)
        \/ CreateFolder(r)
        \/ Upload(r)

Spec == Init /\ [][Next]_vars

\* ------------------------------------------------------- reading a trace
Ops(r, ops) == {i \in 1..Len(trace[r]) : trace[r][i].op \in ops}
Lookups == {"users_info", "conversations_info"}
DriveOps == {"token_load", "auth_flow", "build", "files_list", "folder_create",
             "file_create", "permission"}
\* the replies that reached the user, by template
Said(r, kinds) ==
    {i \in Ops(r, {"say"}) : trace[r][i].ok /\ trace[r][i].kind \in kinds}
\* every call the run made returned
AllOk(r) == \A i \in 1..Len(trace[r]) : trace[r][i].ok
\* a stage (not a reply) raised
StageFault(r) == \E i \in 1..Len(trace[r]) : trace[r][i].op # "say" /\ ~trace[r][i].ok
\* the replies made only by the except clauses (lines 210-211 and 231-232)
FailureKinds == {"slack_error", "unexpected", "problem"}
\* no download, compression or upload was attempted
NoPipeline(r) == Ops(r, {"get", "gs"} \cup DriveOps) = {}

\* -------------------------------------------------------------- claims
\* every reply the run attempted was delivered
RepliesOk(r) == \A i \in Ops(r, {"say"}) : trace[r][i].ok

\* C1: whenever a stage (folder-name lookup, download_file, optimize_pdf,
\* upload_to_drive) raises, handle_mentions ends in Failed and has emitted
\* exactly one failure message to the user, not zero and not two.  Stated for
\* the runs whose replies are all delivered (a reply that raises is C2).
C1_OneFailureMessage ==
    \A r \in Req :
        (pc[r] \in Terminal /\ StageFault(r) /\ RepliesOk(r)) =>
            /\ pc[r] = "Failed"
            /\ Cardinality(Said(r, FailureKinds)) = 1

\* C2: no exception propagates out of handle_mentions, whichever external
\* calls fail, the replies made inside the except clauses included.
C2_NeverRaises == \A r \in Req : pc[r] # "Raised"

\* C3: under any interleaving, the file a request compresses is the bytes that
\* request downloaded, and the file it uploads is the compression of its own
\* download.
C3_OwnScratch ==
    \A r \in Req : \A i \in Ops(r, {"gs", "file_create"}) :
        trace[r][i].ok => trace[r][i].src = r

\* the host belongs to the chat platform: slack.com or a subdomain of it
IsPlatformHost(host) ==
    LET n == Len(host)
    IN  /\ n >= 2
        /\ host[n - 1] = "slack"
        /\ host[n] = ".com"
        /\ n >= 3 => host[n - 2] \in {"files.", "www."}

\* C4: download_file sends the bearer token exactly when the host of the URL
\* it fetches belongs to the chat platform; a third-party URL that only
\* contains the platform's domain name is fetched without it.
C4_TokenOnlyToPlatform ==
    \A r \in Req : \A i \in Ops(r, {"get"}) :
        trace[r][i].auth <=> IsPlatformHost(UrlNetloc(trace[r][i].url))

\* the templates of the delivered replies, in order
RECURSIVE KindsOf(_)
KindsOf(t) ==
    IF t = <<>> THEN <<>>
    ELSE (IF Head(t).op = "say" /\ Head(t).ok THEN <<Head(t).kind>> ELSE <<>>)
         \o KindsOf(Tail(t))

\* C5: an event with more than one attachment leads to no download, no
\* compression and no upload; when the calls the run makes succeed it ends in
\* Failed with the "too many attachments" message as its only reply.
C5_TooManyRejected ==
    \A r \in Req :
        Len(event[r].files) > 1 =>
            /\ NoPipeline(r)
            /\ (pc[r] \in Terminal /\ AllOk(r)) =>
                   (pc[r] = "Failed" /\ KindsOf(trace[r]) = <<"too_many">>)
C5_Witness ==
    \E r \in Req :
        /\ Len(event[r].files) > 1
        /\ pc[r] = "Failed"
        /\ AllOk(r)
        /\ KindsOf(trace[r]) = <<"too_many">>

\* C6: an event with exactly one attachment whose declared type is not PDF
\* leads to no download; when the calls the run makes succeed it ends in
\* Failed with the "unsupported type" message as its only reply.
C6_NonPdfRejected ==
    \A r \in Req :
        (Len(event[r].files) = 1 /\ event[r].files[1].filetype # "pdf") =>
            /\ NoPipeline(r)
            /\ (pc[r] \in Terminal /\ AllOk(r)) =>
                   (pc[r] = "Failed" /\ KindsOf(trace[r]) = <<"unsupported">>)
C6_Witness ==
    \E r \in Req :
        /\ Len(event[r].files) = 1
        /\ event[r].files[1].filetype # "pdf"
        /\ pc[r] = "Failed"
        /\ AllOk(r)
        /\ KindsOf(trace[r]) = <<"unsupported">>

\* u is the first HTTP/HTTPS URL substring of text: it starts at the first
\* place where a scheme, "://" and a non-blank follow each other, and runs to
\* the next blank or the end of the text
IsFirstUrl(text, u) ==
    /\ UrlStarts(text) # {}
    /\ LET i == Min(UrlStarts(text))
           j == i + Len(u)
       IN  /\ Len(u) >= 3
           /\ OccursAt(text, u, i)
           /\ \A k \in 1..Len(u) : u[k] \notin Whitespace
           /\ j <= Len(text) => text[j] \in Whitespace
\* the path of u ends in .pdf, whatever the case
PathEndsInPdf(u) ==
    LET p == UrlPath(u) IN Len(p) > 0 /\ p[Len(p)] \in {".pdf", ".PDF"}
\* the text holds a PDF link after its first URL
LaterPdfUrl(text) ==
    \E i \in UrlStarts(text) :
        i > Min(UrlStarts(text)) /\ PathEndsInPdf(MatchFrom(text, i))

\* the first URL substrings of text (none or one)
FirstUrls(text) ==
    IF UrlStarts(text) = {} THEN {}
    ELSE {u \in {SubSeq(text, Min(UrlStarts(text)), j) : j \in 1..Len(text)} :
             IsFirstUrl(text, u)}

\* C7: with no attachment the source is the first URL of the text: a
\* download fetches that URL and nothing else, and when there is no URL or the
\* path of the first one does not end in .pdf (any case) nothing is
\* downloaded and, when the calls the run makes succeed, the run ends in
\* Failed with the "no usable link" message, a later PDF link notwithstanding.
C7_FirstUrlDecides ==
    \A r \in Req :
        event[r].files = <<>> =>
            LET usable == {u \in FirstUrls(event[r].text) : PathEndsInPdf(u)}
            IN  /\ \A i \in Ops(r, {"get"}) :
                       \E u \in usable : trace[r][i].url = DropboxRewrite(u)
                /\ (trace[r] # <<>> /\ usable = {}) =>
                       /\ NoPipeline(r)
                       /\ (pc[r] \in Terminal /\ AllOk(r)) =>
                              (pc[r] = "Failed" /\ KindsOf(trace[r]) = <<"bad_link">>)
C7_Witness ==
    \E r \in Req :
        /\ event[r].files = <<>>
        /\ LaterPdfUrl(event[r].text)
        /\ pc[r] = "Failed"
        /\ AllOk(r)
        /\ NoPipeline(r)
        /\ KindsOf(trace[r]) = <<"bad_link">>

\* the state of section 4.5 a call belongs to
Rank(op) ==
    IF op \in Lookups THEN 1            \* Resolving
    ELSE IF op = "get" THEN 2           \* Acquiring
    ELSE IF op = "gs" THEN 3            \* Compressing
    ELSE IF op \in DriveOps THEN 4      \* Publishing
    ELSE 5                              \* a reply
Stages(r) == Ops(r, Lookups \cup {"get", "gs"} \cup DriveOps)

\* C8: a run in which every stage succeeds goes through Resolving, Acquiring,
\* Compressing, Publishing in that order and ends in Done; it has emitted
\* exactly one "work started" message, exactly one final message and no other
\* reply, and the final message, its last call, carries
\* https://<host>/file/d/<id>/view with <id> the object this run uploaded.
C8_SuccessfulRun ==
    \A r \in Req :
        /\ (pc[r] \in Terminal /\ AllOk(r) /\ Ops(r, {"get"}) # {}) => pc[r] = "Done"
        /\ pc[r] = "Done" =>
              LET t == trace[r]
                  up == Ops(r, {"file_create"})
                  fin == Said(r, {"final"})
              IN  /\ \A i, j \in Stages(r) : i < j => Rank(t[i].op) <= Rank(t[j].op)
                  /\ {Rank(t[i].op) : i \in Stages(r)} = 1..4
                  /\ Cardinality(Said(r, {"working"})) = 1
                  /\ KindsOf(t) = <<"working", "final">>
                  /\ fin = {Len(t)}
                  /\ Cardinality(up) = 1
                  /\ \A i \in up :
                        /\ t[Len(t)].link =
                              [host |-> "drive.google.com", prefix |-> "/file/d/",
                               id |-> t[i].id, suffix |-> "/view"]
                        /\ \E f \in driveFiles :
                              f.id = t[i].id /\ f.name = optimized_name[r]
C8_Witness ==
    \E r \in Req :
        /\ pc[r] = "Done"
        /\ KindsOf(trace[r]) = <<"working", "final">>
        /\ \E f \in driveFiles : f.id = trace[r][Len(trace[r])].link.id /\ f.public

\* C9: when runs do not overlap, after a successful run for a folder name
\* every later run with the same name makes no folder-create call and uses
\* the folder the earlier run used.
C9_FolderReused ==
    \A q, r \in Req :
        (/\ ~overlapped
         /\ q < r
         /\ pc[q] = "Done"
         /\ pc[r] \notin {"Idle", "Resolving"}
         /\ folder_name[r] = folder_name[q]) =>
            /\ Ops(r, {"folder_create"}) = {}
            /\ pc[r] \in {"PubUpload", "Done"} => folder_id[r] = folder_id[q]
C9_Witness ==
    \E q, r \in Req :
        /\ ~overlapped
        /\ q < r
        /\ pc[q] = "Done"
        /\ pc[r] = "Done"
        /\ folder_name[r] = folder_name[q]
        /\ folder_id[r] = folder_id[q]
        /\ Ops(r, {"folder_create"}) = {}

\* C10: in every reachable state, concurrent upload_to_drive calls included,
\* at most one folder with a given name has been created.
C10_NeverDuplicated ==
    \A f, g \in driveFolders : f.name = g.name => f = g

\* C10 as amended: when no handle_mentions run overlaps another, at most one
\* folder with a given name has been created.
C10_NoDuplicateWithoutOverlap ==
    ~overlapped => \A f, g \in driveFolders : f.name = g.name => f.id = g.id
C10_Witness ==
    /\ ~overlapped
    /\ \A r \in Req : Ops(r, {"files_list"}) # {} /\ pc[r] \in Terminal
    /\ \A q, r \in Req : folder_name[q] = folder_name[r]
    /\ Cardinality(driveFolders) = 1

\* C11: every reply handle_mentions attempts, on any path, is threaded to the
\* event's message timestamp.
C11_AllRepliesThreaded ==
    \A r \in Req : \A i \in Ops(r, {"say"}) : trace[r][i].thread = event[r].ts

\* the last reply that reached the user, "" when there is none
LastKind(r) ==
    LET k == KindsOf(trace[r]) IN IF k = <<>> THEN "" ELSE k[Len(k)]

\* C12: every run that ends in Failed, by input rejection or by a stage fault,
\* has emitted the generic "problem occurred" acknowledgement, after any
\* stage-specific message it sent.
C12_FailedSaysProblem ==
    \A r \in Req : pc[r] = "Failed" => LastKind(r) = "problem"

\* the calls of one kind made by all requests
AllOps(ops) == {<<r, i>> \in Req \X (1..20) : i \in Ops(r, ops)}

\* C13: the storage-service session is created once, by the first call of
\* get_drive_service; no later call, from any request, creates another one or
\* runs authorization again.
C13_SessionOnce ==
    /\ Cardinality(AllOps({"build"})) <= 1
    /\ Cardinality(AllOps({"auth_flow"})) <= 1

\* C14: the "work started" acknowledgement is emitted before the download:
\* every run that attempts a download has said it before the GET.
C14_WorkingBeforeDownload ==
    \A r \in Req : \A i \in Ops(r, {"get"}) :
        \E j \in Ops(r, {"say"}) : j < i /\ trace[r][j].kind = "working"

\* the calls of the three stages
StageOps == {"get", "gs"} \cup DriveOps
EarlierOk(r, i, ops) == \E j \in Ops(r, ops) : j < i /\ trace[r][j].ok

\* C15: the stages run in order and a failure short-circuits: Ghostscript runs
\* only after a download that succeeded, upload_to_drive is entered only after a
\* Ghostscript run that succeeded, and after a failed stage call the run makes
\* no later stage call and sends no success message.
C15_StagesShortCircuit ==
    \A r \in Req :
        /\ \A i \in Ops(r, {"gs"}) : EarlierOk(r, i, {"get"})
        /\ \A i \in Ops(r, DriveOps) : EarlierOk(r, i, {"gs"})
        /\ \A i \in Ops(r, StageOps) :
              ~trace[r][i].ok =>
                  \A k \in (i + 1)..Len(trace[r]) :
                      /\ trace[r][k].op \notin StageOps
                      /\ trace[r][k].kind # "final"
C15_Witness ==
    \E r \in Req :
        /\ pc[r] = "Failed"
        /\ \E i \in Ops(r, {"gs"}) : ~trace[r][i].ok
        /\ Ops(r, DriveOps) = {}

\* C16: upload_to_drive resolves the folder, uploads, grants and forms the link
\* in that order, and a link is posted only for an object that was uploaded and
\* whose anyone-reader grant succeeded.
C16_LinkOnlyAfterGrant ==
    \A r \in Req :
        /\ \A b \in Ops(r, {"folder_create", "file_create"}) :
              EarlierOk(r, b, {"files_list"})
        /\ \A c \in Ops(r, {"permission"}) :
              \E b \in Ops(r, {"file_create"}) :
                  /\ b < c
                  /\ trace[r][b].ok
                  /\ trace[r][b].id = trace[r][c].id
                  /\ \A a \in Ops(r, {"files_list", "folder_create"}) : a < b
        /\ \A i \in Ops(r, {"say"}) :
              trace[r][i].kind = "final" =>
                  \E c \in Ops(r, {"permission"}) :
                      /\ c < i
                      /\ trace[r][c].ok
                      /\ trace[r][i].link = DriveLink(trace[r][c].id)
                      /\ \E f \in driveFiles : f.id = trace[r][c].id /\ f.public
C16_Witness ==
    \E r \in Req :
        /\ pc[r] = "Done"
        /\ Ops(r, {"folder_create"}) # {}
        /\ \E i \in Ops(r, {"say"}) : trace[r][i].kind = "final" /\ trace[r][i].ok

\* C17: a link on www.dropbox.com with dl=0 is fetched from
\* dl.dropboxusercontent.com with dl=1; a link on any other host is fetched
\* as it is.
C17_DropboxDirectDownload ==
    \A r \in Req : \A i \in Ops(r, {"get"}) :
        IF Contains(file_url[r], <<"www.", "dropbox", ".com">>)
        THEN Contains(file_url[r], <<"?", "dl", "=", "0">>) =>
                 /\ Contains(trace[r][i].url, <<"dl.", "dropbox", "usercontent", ".com">>)
                 /\ Contains(trace[r][i].url, <<"?", "dl", "=", "1">>)
                 /\ ~Contains(trace[r][i].url, <<"?", "dl", "=", "0">>)
        ELSE trace[r][i].url = file_url[r]

\* the call request r makes in this step, when it makes exactly this one first
Calls(r, op) ==
    /\ Len(trace'[r]) > Len(trace[r])
    /\ trace'[r][Len(trace[r]) + 1].op = op

\* C18: a download that fails, by a transport error or by a non-success
\* status, leaves /tmp/original.pdf as it was.
C18_FailedDownloadKeepsFile ==
    [][\A r \in Req :
          (Calls(r, "get") /\ ~trace'[r][Len(trace[r]) + 1].ok) => origFile' = origFile]_vars
C18_Witness ==
    \E r \in Req :
        /\ \E i \in Ops(r, {"get"}) : ~trace[r][i].ok
        /\ origFile \notin {0, r}

\* C19: with at least one attachment the text is never consulted: an event
\* with a non-PDF attachment or with several attachments is rejected without a
\* download even when its text holds a PDF link, and an event with one PDF
\* attachment downloads the attachment's URL and nothing else.
C19_AttachmentsShadowText ==
    \A r \in Req :
        LET files == event[r].files IN
        (pc[r] # "Idle" /\ files # <<>>) =>
            /\ \A i \in Ops(r, {"get"}) :
                  /\ Len(files) = 1
                  /\ files[1].filetype = "pdf"
                  /\ file_url[r] = files[1].url_private_download
                  /\ trace[r][i].url = DropboxRewrite(files[1].url_private_download)
            /\ (Len(files) > 1 \/ files[1].filetype # "pdf") =>
                  /\ NoPipeline(r)
                  /\ (pc[r] \in Terminal /\ AllOk(r)) =>
                        /\ pc[r] = "Failed"
                        /\ Said(r, {"bad_link", "working", "final"}) = {}
C19_Witness ==
    \E r \in Req :
        /\ Len(event[r].files) = 1
        /\ event[r].files[1].filetype = "pdf"
        /\ is_pdf_url(extract_url(event[r].text))
        /\ \E i \in Ops(r, {"get"}) :
              trace[r][i].url = event[r].files[1].url_private_download

\* one step of a handle_mentions call that has started
Run(r) ==
    \/ Resolve(r)
    \/ Acquire(r)
    \/ Compress(r)
    \/ GetService(r)
    \/ Authorize(r)
    \/ ListFolder(r)
    \/ CreateFolder(r)
    \/ Upload(r)

\* every external call returns or raises: a call of handle_mentions that has
\* started keeps taking its steps (events need not keep arriving)
FairSpec == Spec /\ \A r \in Req : WF_vars(Run(r))

\* C20: when every external call returns or raises, every call of
\* handle_mentions eventually reaches exactly one terminal outcome, Done or
\* Failed and never both, and has attempted at least one reply by then.
C20_OneTerminalOutcome ==
    \A r \in Req :
        (pc[r] # "Idle") ~>
            /\ pc[r] \in {"Done", "Failed"}
            /\ Ops(r, {"say"}) # {}
            /\ ~(pc[r] = "Failed" /\ Said(r, {"final"}) # {})

====
